---- MODULE Spec2Model ----
(***************************************************************************)
(* Model of the torznab-monitor polling pipeline (src/main.py):            *)
(* TorznabMonitor.start, _initialize_seen_items, poll_torznab,             *)
(* _process_items, _load_seen, _save_seen, _clear_seen, _clean_guid and    *)
(* _send_notification.                                                     *)
(*                                                                         *)
(* A GUID is a sequence of one-character strings, so that _clean_guid is   *)
(* modelled by the splitting it performs.  A feed entry is a record        *)
(* [has_guid, guid, cats]: has_guid is FALSE when the item has no <guid>   *)
(* element, guid = <<>> is an empty GUID text, cats is the set of values   *)
(* of its attr children named "category".                                  *)
(*                                                                         *)
(* The seen file is a record [kind, list] with kind "missing" (no file),   *)
(* "malformed" (content json.load rejects) or "list" (a JSON array).       *)
(*                                                                         *)
(* SeenCap stands for the literal 200 of _save_seen, scaled down so that   *)
(* the truncation branch is reached with the entries of the model.         *)
(*                                                                         *)
(* Spec follows the monitor from start through its poll cycles.  Three     *)
(* parts are followed on their own: SpecClean one call of _clean_guid,     *)
(* SpecExtract one call of NotificationConfig.get_notification_data        *)
(* (src/configurations/notification_config.py), and SpecSched the          *)
(* scheduler's interval trigger with the runs of the poll job.             *)
(***************************************************************************)
EXTENDS Integers, Sequences, FiniteSets, TLC

\* ------------------------------------------------------------------ bounds
SeenCap == 2
MaxFeed == 3
MaxCycles == 2

\* ------------------------------------------------- string helpers (Python)
\* str.find: index of the first occurrence of ch in s, 0 when there is none
IndexOf(s, ch) ==
  IF \E k \in 1..Len(s) : s[k] = ch
  THEN CHOOSE k \in 1..Len(s) : s[k] = ch /\ \A m \in 1..(k - 1) : s[m] # ch
  ELSE 0

\* str.split(ch): the pieces of s between the occurrences of ch
RECURSIVE Split(_, _)
Split(s, ch) ==
  LET k == IndexOf(s, ch)
  IN IF k = 0 THEN << s >>
     ELSE << SubSeq(s, 1, k - 1) >> \o Split(SubSeq(s, k + 1, Len(s)), ch)

\* str.startswith
StartsWith(s, p) == Len(s) >= Len(p) /\ SubSeq(s, 1, Len(p)) = p

\* the first parameter of params that starts with 'id=', << >> when none:
\* the loop of _clean_guid; found tells the two apart
RECURSIVE FirstIdParam(_)
FirstIdParam(params) ==
  IF params = << >> THEN [found |-> FALSE, param |-> << >>]
  ELSE IF StartsWith(Head(params), << "i", "d", "=" >>)
       THEN [found |-> TRUE, param |-> Head(params)]
       ELSE FirstIdParam(Tail(params))

\* a plausible fault: the GUID is stored as it came
clean_guid_raw(guid) == guid

\* _clean_guid: guid.split('?', 1) raises ValueError when there is no '?',
\* and the handler returns the guid itself
clean_guid(guid) ==
  LET k == IndexOf(guid, "?")
  IN IF k = 0 THEN guid
     ELSE LET base_url == SubSeq(guid, 1, k - 1)
              params == SubSeq(guid, k + 1, Len(guid))
              r == FirstIdParam(Split(params, "&"))
          IN IF r.found THEN base_url \o << "?" >> \o r.param ELSE base_url

\* ------------------------------------------------------- sequence helpers
Range(s) == { s[k] : k \in 1..Len(s) }

Min(a, b) == IF a <= b THEN a ELSE b

\* reversed(items)
RECURSIVE Reverse(_)
Reverse(s) == IF s = << >> THEN << >> ELSE Reverse(Tail(s)) \o << Head(s) >>

\* seen_list[-n:], the last n elements (the whole list when it is shorter)
LastN(s, n) == IF Len(s) <= n THEN s ELSE SubSeq(s, Len(s) - n + 1, Len(s))

\* list(seen): a set has no order of its own, every order of its elements
\* is a list the conversion can give
ListsOf(S) ==
  { l \in [1..Cardinality(S) -> S] : \A a, b \in 1..Cardinality(S) : a # b => l[a] # l[b] }

\* ------------------------------------------------------ the feed's entries
gA == << "a" >>
gB1 == << "b", "?", "i", "d", "=", "1", "&", "t", "=", "9" >>
gC == << "c", "?", "t", "=", "9" >>
gD == << "d", "?", "t", "=", "9", "&", "i", "d", "=", "2" >>

\* endpoint.categories, fixed when the configuration is loaded
categories == { "5000", "5040" }

Entry(h, g, c) == [has_guid |-> h, guid |-> g, cats |-> c]

Entries ==
  { Entry(TRUE, gA, { "5000" }),
    Entry(TRUE, gB1, { "2000", "5040" }),
    Entry(TRUE, gC, { "2000" }),
    Entry(TRUE, gD, { "5040" }),
    Entry(TRUE, << >>, { "5000" }),
    Entry(FALSE, << >>, { "5000" }) }

\* what a fetch can return: every list of at most MaxFeed entries
Feeds == UNION { [1..n -> Entries] : n \in 0..MaxFeed }

Identities == { clean_guid(e.guid) : e \in Entries }

\* the seen file
Missing == [kind |-> "missing", list |-> << >>]
Malformed == [kind |-> "malformed", list |-> << >>]
FileOf(l) == [kind |-> "list", list |-> l]
\* content that is valid JSON and no array: a number, null, true
NotAnArray == [kind |-> "scalar", list |-> << >>]

\* the seen file a process can find when it starts: none, the list an
\* earlier run left (raw GUIDs included), or a file that holds other JSON
InitialFiles == { Missing, FileOf(<< gB1, gC >>), NotAnArray }

\* f"{endpoint.name}-notifiarr", the mapping poll_torznab asks for
mapping_name == "ep-notifiarr"

\* the mapping names NotificationConfig can have loaded: the endpoint's, or
\* only another endpoint's
LoadedMappings == { { "ep-notifiarr" }, { "other-notifiarr" } }

NoFeed == << >>
NoInit == [status |-> "none", feed |-> << >>]

VARIABLES
  pc,              \* position of the monitor: start, load, loop, send, init_done, idle
  skip_init,       \* self.skip_init
  mappings,        \* self.notification_config.mappings, its keys
  mode,            \* which caller runs the process pass: "init" or "poll"
  seen_file,       \* /data/seen_<mapping>.json
  feed,            \* the items of the last fetch, in fetch order
  items,           \* _process_items: the list it iterates
  i,               \* _process_items: index of the next item
  seen,            \* _process_items: the in-memory seen set
  matching_items,  \* _process_items: the matches; poll_torznab iterates it
  j,               \* poll_torznab: index of the next match to send
  cycles,          \* number of fetches so far, the initialization's included
  loaded,          \* history: the set _load_seen returned in this pass
  save_status,     \* history: outcome of this pass's _save_seen
  sent,            \* history: the entries dispatched in this cycle, in order
  results,         \* history: what each of these dispatches came to: "True" and
                   \* "False" as send_notification returned, "KeyError"
  dispatches,      \* history: dispatch attempts per identity (counted up to 2)
  failed,          \* history: identities with a failed dispatch
  evicted,         \* history: identities a save dropped from the seen set
  unsaved,         \* history: identities in the seen set of a save that raised IOError
  recent_dropped,  \* history: a save dropped one of the newest SeenCap matches of its pass
  saved,           \* history: some save wrote the file
  faults,          \* history: the kinds of fault the poll cycles have met
  init_pass,       \* the initialization's outcome and, while the server still serves it
                   \* unchanged, the snapshot it seeded the seen file from
  init_calls,      \* history: number of calls of _initialize_seen_items
  init_returns     \* history: number of these calls that have returned

monitor ==
  << pc, skip_init, mappings, mode, seen_file, feed, items, i, seen, matching_items, j,
     cycles, loaded, save_status, sent, results, dispatches, failed, evicted, unsaved,
     recent_dropped, saved, faults, init_pass, init_calls, init_returns >>

\* The parts of the program that are checked on their own have their own
\* state: a call of _clean_guid, a call of get_notification_data, and the
\* scheduler with the instances of the poll job it runs.
VARIABLES
  arg_guid,        \* _clean_guid: the guid it is called with
  clean_pc,        \* _clean_guid: "call", "returned" or "raised"
  clean_result,    \* _clean_guid: the value returned
  nd_item,         \* get_notification_data: the item
  mapping_fields,  \* self.mappings[name]: the field mappings of the loaded mapping, in order
  nd_pc,           \* get_notification_data: "call", "fields", "returned" or "raised"
  nd_k,            \* get_notification_data: index of the next field
  nd_data,         \* get_notification_data: data, its entries in insertion order
  instances,       \* the executor's threads: what each is doing for the poll job
  fired,           \* number of times the interval trigger has fired
  missed,          \* number of runs skipped because the job was still running
  writes           \* number of times a run has written the seen file

cleaning == << arg_guid, clean_pc, clean_result >>
extraction == << nd_item, mapping_fields, nd_pc, nd_k, nd_data >>
scheduling == << instances, fired, missed, writes >>

\* what a step of the monitor leaves alone
others == << cleaning, extraction, scheduling >>

locals == << feed, items, i, seen, matching_items, j, loaded, save_status, sent, results >>
history == << dispatches, failed, evicted, unsaved, recent_dropped, saved, faults >>
initialization == << init_calls, init_returns >>

\* no call of _clean_guid is followed
CleaningOff == arg_guid = << >> /\ clean_pc = "off" /\ clean_result = << >>

\* no call of get_notification_data is followed
ExtractionOff ==
  /\ nd_item = << >>
  /\ mapping_fields = << >>
  /\ nd_pc = "off"
  /\ nd_k = 1
  /\ nd_data = << >>

\* the scheduler's threads are not followed
SchedulingOff == instances = << >> /\ fired = 0 /\ missed = 0 /\ writes = 0

\* the monitor after construction
MonitorInit ==
  /\ pc = "start"
  /\ skip_init \in BOOLEAN
  /\ mappings \in LoadedMappings
  /\ mode = "init"
  /\ seen_file \in InitialFiles
  /\ feed = NoFeed
  /\ items = << >>
  /\ i = 1
  /\ seen = {}
  /\ matching_items = << >>
  /\ j = 1
  /\ cycles = 0
  /\ loaded = {}
  /\ save_status = "none"
  /\ sent = << >>
  /\ results = << >>
  /\ dispatches = [id \in Identities |-> 0]
  /\ failed = {}
  /\ evicted = {}
  /\ unsaved = {}
  /\ recent_dropped = FALSE
  /\ saved = FALSE
  /\ faults = {}
  /\ init_pass = NoInit
  /\ init_calls = 0
  /\ init_returns = 0

Init == MonitorInit /\ CleaningOff /\ ExtractionOff /\ SchedulingOff

\* the locals of a pass, as a new pass finds them
FreshPass(f, its) ==
  /\ feed' = f
  /\ items' = its
  /\ i' = 1
  /\ seen' = {}
  /\ matching_items' = << >>
  /\ j' = 1
  /\ loaded' = {}
  /\ save_status' = "none"
  /\ sent' = << >>
  /\ results' = << >>

\* ------------------------------------------------------------ _load_seen
\* a plausible fault: the stored GUIDs are loaded as they are
load_seen_raw(file) == IF file.kind = "list" THEN Range(file.list) ELSE {}

\* _load_seen: the cleaned GUIDs of the stored list; FileNotFoundError and
\* JSONDecodeError give the empty set
load_seen(file) ==
  IF file.kind = "list" THEN { clean_guid(guid) : guid \in Range(file.list) } ELSE {}

\* _load_seen catches FileNotFoundError and JSONDecodeError only: a value of
\* json.load that cannot be iterated (a number, null, true) raises TypeError
\* out of it
load_seen_raises(file) == file.kind = "scalar"

\* ----------------------------------------------------------- _clear_seen
\* a plausible fault: the file of the last run is left in place
not_cleared(file) == file

\* _clear_seen: the file is unlinked when it exists
clear_seen(file) == Missing

\* ------------------------------------------------------------ _save_seen
\* a plausible fault: the IOError reaches the caller, whose handler ends the
\* cycle
save_error_raised(after) == IF after = "send" THEN "idle" ELSE after

\* _save_seen's `except IOError`: logged, and _process_items goes on to
\* return its matches
after_save_error(after) == after

\* a plausible fault: the list is written whole
untruncated(seen_list) == seen_list

\* a plausible fault: the slice keeps one item too few
truncated_short(seen_list) == LastN(seen_list, SeenCap - 1)

\* _save_seen: the list that is dumped, seen_list[-200:] when it is longer
truncated(seen_list) ==
  IF Len(seen_list) > SeenCap THEN LastN(seen_list, SeenCap) ELSE seen_list

\* -------------------------------------------------------- _process_items
\* a plausible fault: the GUID test is dropped
any_guid(item) == TRUE

\* `if not guid`: the item has a <guid> element with a non-empty text
has_guid(item) == item.has_guid /\ item.guid # << >>

\* a plausible fault: the seen test is dropped
never_seen(cleaned_guid, seen_set) == FALSE

\* `cleaned_guid in seen`
already_seen(cleaned_guid, seen_set) == cleaned_guid \in seen_set

\* a plausible fault: the category test is dropped
any_category(item) == TRUE

\* `categories & item_categories`, item_categories = _extract_categories(item)
category_match(item) == (categories \cap item.cats) # {}

\* ---------------------------------------------------------- poll_torznab
\* a plausible fault: the exception leaves poll_torznab
propagated(fault) == "crashed"

\* a plausible fault: a failed fetch is taken as an empty feed
carried_on(fault) == IF fault = "fetch" THEN "load" ELSE "idle"

\* poll_torznab's `except Exception`: the fault is logged and the job returns
after_poll_fault(fault) == "idle"

\* a plausible fault: the items are processed in fetch order
fetch_order(fetched) == fetched

\* reversed(items): the regular poll processes the oldest entry first
poll_order(fetched) == Reverse(fetched)

\* a plausible fault: a failed send takes the identity out of the seen file
rolled_back(file, id, delivered) ==
  IF delivered \/ file.kind # "list" THEN file
  ELSE FileOf(SelectSeq(file.list, LAMBDA guid : guid # id))

\* _send_notification: neither handler touches the seen file
file_after_send(file, id, delivered) == file

\* ---------------------------------------------------- _send_notification
\* a plausible fault: any mapping name is taken as loaded
any_mapping(loaded_mappings) == TRUE

\* get_notification_data: `if mapping_name not in self.mappings: raise KeyError`
mapping_found(loaded_mappings) == mapping_name \in loaded_mappings

\* NotifiarrService.send_notification: True when the post went through, False
\* from its `except Exception` otherwise
send_notification(delivered) == IF delivered THEN "True" ELSE "False"

\* _send_notification for one match: the KeyError of a mapping that is not
\* loaded is logged and nothing is sent, otherwise send_notification's result
send_result(loaded_mappings, delivered) ==
  IF mapping_found(loaded_mappings) THEN send_notification(delivered) ELSE "KeyError"

\* a plausible fault: a dispatch that fails ends the loop
stop_at_failure(k, n, result) == IF result = "True" THEN k + 1 ELSE n + 1

\* poll_torznab's `for item in matching_items`: _send_notification returns
\* whatever happened, the loop goes to the next of the n matches
next_match(k, n, result) == k + 1

\* the kind of fault behind a dispatch's result
FaultOf(result) ==
  IF result = "True" THEN {} ELSE IF result = "KeyError" THEN { "mapping" } ELSE { "dispatch" }

\* ------------------------------------------------- what the claims speak of
\* the normalized identity of an entry
Identity(e) == clean_guid(e.guid)

\* the entry has a GUID: the element is there and its text is not empty
Considered(e) == e.has_guid /\ Len(e.guid) > 0

\* the entry's categories intersect the endpoint's
InCategories(e) == \E c \in e.cats : c \in categories

Eligible(e) == Considered(e) /\ InCategories(e)

EligibleIds(f) == { Identity(e) : e \in { x \in Range(f) : Eligible(x) } }

\* the identities of the newest SeenCap matches of a pass
RecentIds(matches) == { Identity(e) : e \in Range(LastN(matches, SeenCap)) }

\* ------------------------------------------------------------- actions
\* _initialize_seen_items has returned once more when the pass that ends is
\* the initialization's
returns_after(m, n) == IF m = "init" THEN n + 1 ELSE n

\* start -> _initialize_seen_items: _clear_seen, then a fetch that succeeds;
\* the items are processed in fetch order
InitializeSeenItems ==
  /\ pc = "start"
  /\ ~skip_init
  /\ seen_file' = clear_seen(seen_file)
  /\ \E fetched \in Feeds : FreshPass(fetched, fetched)
  /\ mode' = "init"
  /\ init_pass' = [status |-> "fetched", feed |-> feed']
  /\ pc' = "load"
  /\ cycles' = cycles + 1
  /\ UNCHANGED << skip_init, mappings, history >>
  /\ init_calls' = init_calls + 1
  /\ UNCHANGED init_returns
  /\ UNCHANGED others

\* _initialize_seen_items when the fetch or the parse raises: logged, and
\* start goes on
InitializeFetchFails ==
  /\ pc = "start"
  /\ ~skip_init
  /\ seen_file' = clear_seen(seen_file)
  /\ init_pass' = [status |-> "failed", feed |-> << >>]
  /\ pc' = "init_done"
  /\ cycles' = cycles + 1
  /\ UNCHANGED << skip_init, mappings, mode, locals, history >>
  /\ init_calls' = init_calls + 1
  /\ init_returns' = init_returns + 1
  /\ UNCHANGED others

\* a plausible fault: the scheduler is started without waiting for the
\* initialization
starts_at_once(at, skip) == at \in { "start", "init_done" }

\* start: add_job and scheduler.start() come after the `if not self.skip_init`
\* statement, so after _initialize_seen_items has returned, or at once when
\* the initialization is skipped
scheduler_may_start(at, skip) == (at = "start" /\ skip) \/ at = "init_done"

\* start: the poll job is added and the scheduler started, after the
\* initialization or at once when it is skipped
StartScheduler ==
  /\ scheduler_may_start(pc, skip_init)
  /\ pc' = "idle"
  /\ FreshPass(NoFeed, << >>)
  /\ \E unchanged \in BOOLEAN :
       init_pass' =
         IF init_pass.status = "fetched" /\ save_status = "ok" /\ unchanged
         THEN [status |-> "seeded", feed |-> feed]
         ELSE NoInit
  /\ UNCHANGED << skip_init, mappings, mode, seen_file, cycles, history >>
  /\ UNCHANGED initialization
  /\ UNCHANGED others

\* poll_torznab, the fetch succeeds
PollTorznab ==
  /\ pc = "idle"
  /\ cycles < MaxCycles
  /\ cycles' = cycles + 1
  /\ \E fetched \in Feeds :
       /\ init_pass.status = "seeded" => fetched = init_pass.feed
       /\ FreshPass(fetched, poll_order(fetched))
  /\ mode' = "poll"
  /\ pc' = "load"
  /\ UNCHANGED << skip_init, mappings, seen_file, init_pass, history >>
  /\ UNCHANGED initialization
  /\ UNCHANGED others

\* poll_torznab, the fetch or the parse raises: the cycle is skipped
PollFetchFails ==
  /\ pc = "idle"
  /\ cycles < MaxCycles
  /\ cycles' = cycles + 1
  /\ mode' = "poll"
  /\ init_pass' = NoInit
  /\ pc' = after_poll_fault("fetch")
  /\ faults' = faults \cup { "fetch" }
  /\ UNCHANGED << skip_init, mappings, seen_file, locals, dispatches, failed, evicted,
                  unsaved, recent_dropped, saved >>
  /\ UNCHANGED initialization
  /\ UNCHANGED others

\* _process_items: seen = self._load_seen(mapping_name)
LoadSeen ==
  /\ pc = "load"
  /\ ~load_seen_raises(seen_file)
  /\ seen' = load_seen(seen_file)
  /\ loaded' = load_seen(seen_file)
  /\ pc' = "loop"
  /\ UNCHANGED << skip_init, mappings, mode, seen_file, feed, items, i, matching_items, j,
                  cycles, save_status, sent, results, init_pass, history >>
  /\ UNCHANGED initialization
  /\ UNCHANGED others

\* _load_seen raises: the exception leaves _process_items and ends the pass in
\* the handler of its caller, poll_torznab or _initialize_seen_items
LoadSeenRaises ==
  /\ pc = "load"
  /\ load_seen_raises(seen_file)
  /\ pc' = IF mode = "init" THEN "init_done" ELSE after_poll_fault("load")
  /\ faults' = IF mode = "init" THEN faults ELSE faults \cup { "load" }
  /\ FreshPass(NoFeed, << >>)
  /\ init_pass' = NoInit
  /\ UNCHANGED << skip_init, mappings, mode, seen_file, cycles, dispatches, failed,
                  evicted, unsaved, recent_dropped, saved >>
  /\ init_returns' = returns_after(mode, init_returns)
  /\ UNCHANGED init_calls
  /\ UNCHANGED others

\* a plausible fault: a match is not marked as seen
seen_not_marked(seen_set, cleaned_guid) == seen_set

\* _process_items: seen.add(cleaned_guid)
seen_after_match(seen_set, cleaned_guid) == seen_set \cup { cleaned_guid }

\* _process_items: one iteration of `for item in items`
ProcessItem ==
  /\ pc = "loop"
  /\ i <= Len(items)
  /\ LET item == items[i]
         cleaned_guid == clean_guid(item.guid)
     IN IF has_guid(item) /\ ~already_seen(cleaned_guid, seen) /\ category_match(item)
        THEN /\ matching_items' = Append(matching_items, item)
             /\ seen' = seen_after_match(seen, cleaned_guid)
        ELSE UNCHANGED << matching_items, seen >>
  /\ i' = i + 1
  /\ UNCHANGED << pc, skip_init, mappings, mode, seen_file, feed, items, j, cycles, loaded,
                  save_status, sent, results, init_pass, history >>
  /\ UNCHANGED initialization
  /\ UNCHANGED others

\* where the caller of _process_items goes on
AfterPass == IF mode = "init" THEN "init_done" ELSE "send"

\* _process_items: self._save_seen(seen, mapping_name), the dump succeeds
SaveSeen ==
  /\ pc = "loop"
  /\ i > Len(items)
  /\ \E seen_list \in ListsOf(seen) :
       /\ seen_file' = FileOf(truncated(seen_list))
       /\ evicted' = evicted \cup (seen \ Range(truncated(seen_list)))
       /\ recent_dropped' =
            (recent_dropped \/ ~(RecentIds(matching_items) \subseteq Range(truncated(seen_list))))
  /\ save_status' = "ok"
  /\ saved' = TRUE
  /\ pc' = AfterPass
  /\ UNCHANGED << skip_init, mappings, mode, feed, items, i, seen, matching_items, j, cycles,
                  loaded, sent, results, dispatches, failed, unsaved, faults, init_pass >>
  /\ init_returns' = returns_after(mode, init_returns)
  /\ UNCHANGED init_calls
  /\ UNCHANGED others

\* _save_seen raises IOError: open fails and the file is as it was, or the
\* dump fails after open(.., 'w') emptied the file.  Logged, not raised
SaveSeenFails ==
  /\ pc = "loop"
  /\ i > Len(items)
  /\ \E left \in { seen_file, Malformed } : seen_file' = left
  /\ save_status' = "failed"
  /\ unsaved' = unsaved \cup seen
  /\ faults' = IF mode = "init" THEN faults ELSE faults \cup { "save" }
  /\ pc' = after_save_error(AfterPass)
  /\ UNCHANGED << skip_init, mappings, mode, feed, items, i, seen, matching_items, j, cycles,
                  loaded, sent, results, dispatches, failed, evicted, recent_dropped, saved,
                  init_pass >>
  /\ init_returns' = returns_after(mode, init_returns)
  /\ UNCHANGED init_calls
  /\ UNCHANGED others

\* poll_torznab: one iteration of `for item in matching_items`;
\* _send_notification logs a failure and returns
SendNotification ==
  /\ pc = "send"
  /\ j <= Len(matching_items)
  /\ \E delivered \in BOOLEAN :
       LET id == clean_guid(matching_items[j].guid)
           result == send_result(mappings, delivered)
       IN /\ dispatches' = [dispatches EXCEPT ![id] = Min(@ + 1, 2)]
          /\ failed' = IF result = "False" THEN failed \cup { id } ELSE failed
          /\ seen_file' = file_after_send(seen_file, id, delivered)
          /\ results' = Append(results, result)
          /\ faults' = faults \cup FaultOf(result)
          /\ j' = next_match(j, Len(matching_items), result)
  /\ sent' = Append(sent, matching_items[j])
  /\ UNCHANGED << pc, skip_init, mappings, mode, feed, items, i, seen, matching_items, cycles,
                  loaded, save_status, evicted, unsaved, recent_dropped, saved, init_pass >>
  /\ UNCHANGED initialization
  /\ UNCHANGED others

\* poll_torznab returns
PollDone ==
  /\ pc = "send"
  /\ j > Len(matching_items)
  /\ pc' = "idle"
  /\ FreshPass(NoFeed, << >>)
  /\ init_pass' = NoInit
  /\ UNCHANGED << skip_init, mappings, mode, seen_file, cycles, history >>
  /\ UNCHANGED initialization
  /\ UNCHANGED others

Next ==
  \/ InitializeSeenItems
  \/ InitializeFetchFails
  \/ StartScheduler
  \/ PollTorznab
  \/ PollFetchFails
  \/ LoadSeen
  \/ LoadSeenRaises
  \/ ProcessItem
  \/ SaveSeen
  \/ SaveSeenFails
  \/ SendNotification
  \/ PollDone

vars == << monitor, cleaning, extraction, scheduling >>

Spec == Init /\ [][Next]_vars

TypeOK ==
  /\ pc \in { "start", "load", "loop", "send", "init_done", "idle" }
  /\ mappings \in LoadedMappings
  /\ mode \in { "init", "poll" }
  /\ seen \subseteq Identities
  /\ cycles \in 0..MaxCycles
  /\ save_status \in { "none", "ok", "failed" }

\* ---------------------------------------------------------------- claims
idB == << "b", "?", "i", "d", "=", "1" >>
idC == << "c" >>
idD == << "d", "?", "i", "d", "=", "2" >>

eB == Entry(TRUE, gB1, { "2000", "5040" })
eC == Entry(TRUE, gC, { "2000" })
eD == Entry(TRUE, gD, { "5040" })

\* the poll cycle has dispatched all its matches
CycleComplete == pc = "send" /\ j > Len(matching_items)

\* the entries of a list pairwise differ in identity
DistinctIds(l) == \A a, b \in 1..Len(l) : a # b => Identity(l[a]) # Identity(l[b])

\* C1, as stated: while every save succeeds and keeps the newest matches, no
\* identity is dispatched twice.  The cap breaks it: a cycle that matches more
\* than SeenCap entries drops one of them, and the next cycle matches it again.
C1_NeverTwice ==
  (unsaved = {} /\ ~recent_dropped) => \A id \in Identities : dispatches[id] <= 1

\* C1, amended: no identity is matched or dispatched twice within one cycle,
\* and an identity is dispatched in a second cycle only after a save dropped it
\* from the persisted list (the cap) or failed.
C1_OnceUnlessDropped ==
  /\ DistinctIds(matching_items)
  /\ DistinctIds(sent)
  /\ \A id \in Identities : dispatches[id] >= 2 => id \in (evicted \cup unsaved)

\* C1: an entry dispatched once in an earlier cycle is in the feed again, its
\* identity was loaded, and the complete cycle did not dispatch it.
C1_Witness ==
  /\ CycleComplete
  /\ \E e \in Range(feed) :
       /\ Eligible(e)
       /\ Identity(e) \in loaded
       /\ dispatches[Identity(e)] = 1
       /\ e \notin Range(sent)

\* C2, as stated: while every save succeeds and keeps the newest matches, an
\* identity whose dispatch failed is never dispatched again.
C2_FailedNeverRetried ==
  (unsaved = {} /\ ~recent_dropped) => \A id \in failed : dispatches[id] <= 1

\* a dispatch step of poll_torznab's loop
SendStep == pc = "send" /\ j' = j + 1

\* C2, amended: a dispatch, failed or not, leaves the persisted seen-set as it
\* is, and an identity whose dispatch failed is dispatched again only after a
\* save dropped it from the persisted list (the cap) or failed.
C2_FailureKeepsSeen ==
  /\ [](\A id \in failed : dispatches[id] >= 2 => id \in (evicted \cup unsaved))
  /\ [][SendStep => seen_file' = seen_file]_vars

\* C2: an entry whose dispatch failed in an earlier cycle is in the feed
\* again, its identity is still persisted, and the complete cycle did not
\* dispatch it.
C2_Witness ==
  /\ CycleComplete
  /\ \E e \in Range(feed) :
       /\ Eligible(e)
       /\ Identity(e) \in failed
       /\ Identity(e) \in loaded
       /\ dispatches[Identity(e)] = 1
       /\ e \notin Range(sent)

\* the entry is one a process pass starting from the loaded set would take
Unseen(e) == Considered(e) /\ Identity(e) \notin loaded /\ InCategories(e)

\* of the entries of l, the first one of each identity, in the order of l
RECURSIVE FirstOfEachId(_, _)
FirstOfEachId(l, ids) ==
  IF l = << >> THEN << >>
  ELSE IF Identity(Head(l)) \in ids THEN FirstOfEachId(Tail(l), ids)
       ELSE << Head(l) >> \o FirstOfEachId(Tail(l), ids \cup { Identity(Head(l)) })

\* C3, as stated: the dispatch sequence of a complete cycle is the
\* reverse-fetch-order subsequence of the entries with a GUID, an identity
\* that was not loaded and a matching category.
C3_ReverseSubsequence ==
  CycleComplete => sent = SelectSeq(Reverse(feed), Unseen)

\* C3, amended: ... of those entries, only the first processed of each
\* identity; and the scenario of the spec: fetch order [D, B, C] with only B
\* and D matching and nothing loaded gives the dispatches [B, D], the seen-set
\* {B, D}, and C neither seen nor notified.
C3_ReverseOrderDispatch ==
  CycleComplete =>
    /\ sent = FirstOfEachId(SelectSeq(Reverse(feed), Unseen), {})
    /\ (feed = << eD, eB, eC >> /\ loaded = {}) =>
         /\ sent = << eB, eD >>
         /\ seen = { idB, idD }
         /\ save_status = "ok" => Range(seen_file.list) = { idB, idD }
         /\ eC \notin Range(sent)

\* C3: the scenario of the spec has run.
C3_Witness ==
  /\ CycleComplete
  /\ feed = << eD, eB, eC >>
  /\ loaded = {}
  /\ save_status = "ok"
  /\ sent = << eB, eD >>

\* the initialization pass has ended after a fetch and a save that succeeded
InitSeeded == pc = "init_done" /\ init_pass.status = "fetched" /\ save_status = "ok"

NoDispatchYet == sent = << >> /\ \A id \in Identities : dispatches[id] = 0

\* C4, as stated: the initialization dispatches nothing and persists exactly
\* the identities of the snapshot's entries with a GUID and a matching category.
C4_SeedsEveryMatch ==
  InitSeeded =>
    /\ NoDispatchYet
    /\ Range(seen_file.list) = EligibleIds(feed)

\* C4, amended: the initialization dispatches nothing; after a fetch and a
\* save that succeeded the persisted list holds only identities of the
\* snapshot's matching entries, all of them when they are at most SeenCap and
\* SeenCap of them otherwise.
C4_SeedsUpToCap ==
  /\ mode = "init" => NoDispatchYet
  /\ InitSeeded =>
       /\ Range(seen_file.list) \subseteq EligibleIds(feed)
       /\ Cardinality(Range(seen_file.list)) = Min(SeenCap, Cardinality(EligibleIds(feed)))

\* C4: an initialization over a snapshot with two matching entries and one
\* that does not match has persisted the two.
C4_Witness ==
  /\ InitSeeded
  /\ Cardinality(EligibleIds(feed)) = 2
  /\ Range(seen_file.list) = EligibleIds(feed)
  /\ \E e \in Range(feed) : Considered(e) /\ ~InCategories(e)

\* the first poll after a seeding initialization, over the unchanged snapshot,
\* has processed its items
PollOfInitSnapshot ==
  pc = "send" /\ mode = "poll" /\ init_pass.status = "seeded" /\ feed = init_pass.feed

\* C5, as stated: the poll over the snapshot of the initialization matches
\* and dispatches nothing.
C5_NothingAfterInit ==
  PollOfInitSnapshot => matching_items = << >> /\ sent = << >>

\* C5, amended: ... when the snapshot has at most SeenCap matching identities.
C5_NothingAfterInitWithinCap ==
  (PollOfInitSnapshot /\ Cardinality(EligibleIds(feed)) <= SeenCap) =>
    matching_items = << >> /\ sent = << >>

\* C5: such a poll over a snapshot with matching entries has ended.
C5_Witness ==
  /\ PollOfInitSnapshot
  /\ CycleComplete
  /\ Cardinality(EligibleIds(feed)) = SeenCap
  /\ sent = << >>

\* C6: after a successful save the persisted list has at most SeenCap entries.
C6_PersistedWithinCap ==
  save_status = "ok" => seen_file.kind = "list" /\ Len(seen_file.list) <= SeenCap

\* C6: a save of a seen set larger than the cap has succeeded.
C6_Witness ==
  /\ save_status = "ok"
  /\ Cardinality(seen) > SeenCap
  /\ Len(seen_file.list) = SeenCap

\* C7, as stated: a successful save keeps the newest identities, so the
\* newest SeenCap matches of the pass (all of them when the pass matched at
\* most SeenCap entries) are in the persisted list.
C7_KeepsNewest ==
  save_status = "ok" => RecentIds(matching_items) \subseteq Range(seen_file.list)

\* an iteration of _process_items' loop
ProcessStep == pc = "loop" /\ i <= Len(items) /\ i' = i + 1

\* C8: an entry whose categories do not intersect the endpoint's is never
\* among the matches, and the iteration that processes it leaves the matches
\* and the seen set as they are.
C8_CategoryFilter ==
  /\ [](\A e \in Range(matching_items) : InCategories(e))
  /\ [][(ProcessStep /\ ~InCategories(items[i])) =>
          (matching_items' = matching_items /\ seen' = seen)]_vars

\* C8: an unseen entry with a GUID and no matching category has been
\* processed, and its identity is not in the seen set.
C8_Witness ==
  /\ pc = "loop"
  /\ i > 1
  /\ Considered(items[i - 1])
  /\ ~InCategories(items[i - 1])
  /\ Identity(items[i - 1]) \notin seen

\* C9: an entry without a GUID or with an empty one is never among the
\* matches nor dispatched; the iteration that processes it leaves the matches
\* and the seen set as they are and the loop goes on with the next entry.
C9_NoGuidSkipped ==
  /\ [](\A e \in Range(matching_items) \cup Range(sent) : Considered(e))
  /\ [][(ProcessStep /\ ~Considered(items[i])) =>
          (matching_items' = matching_items /\ seen' = seen /\ pc' = "loop")]_vars

\* C9: a pass has matched an entry that came after one without a GUID and
\* after one with an empty GUID.
C9_Witness ==
  /\ pc = "loop"
  /\ i > Len(items)
  /\ Len(items) = 3
  /\ ~items[1].has_guid
  /\ items[2].has_guid /\ items[2].guid = << >>
  /\ matching_items = << items[3] >>

\* the value is a normalized identity
Normalized(guid) == clean_guid(guid) = guid

\* C10: the in-memory seen set after the load and the persisted list after a
\* save hold normalized identities only, never a raw GUID.
C10_SeenNormalized ==
  /\ \A guid \in seen : Normalized(guid)
  /\ gB1 \notin seen /\ gC \notin seen /\ gD \notin seen
  /\ saved /\ seen_file.kind = "list" =>
       /\ \A guid \in Range(seen_file.list) : Normalized(guid)
       /\ { gB1, gC, gD } \cap Range(seen_file.list) = {}

\* C10: a file of raw GUIDs was loaded, a raw GUID of the feed was matched,
\* and the save has written their normalized identities.
C10_Witness ==
  /\ save_status = "ok"
  /\ cycles = 1
  /\ skip_init
  /\ loaded = { idB, idC }
  /\ idB \in Range(seen_file.list)
  /\ idD \in Range(seen_file.list)

\* the matches a poll pass over the fetched feed is to return
ExpectedMatches == FirstOfEachId(SelectSeq(Reverse(feed), Unseen), {})

\* C12: a poll cycle whose fetch or parse fails is skipped: it makes that one
\* fetch and no more, processes no entry, dispatches nothing, leaves the seen
\* file as it was, and the monitor is idle again, where the next cycle starts
\* as any cycle does.
C12_FetchFailureSkipsCycle ==
  /\ [][PollFetchFails =>
          /\ cycles' = cycles + 1
          /\ pc' = "idle"
          /\ items' = << >> /\ matching_items' = << >> /\ seen' = {}
          /\ sent' = << >> /\ dispatches' = dispatches
          /\ seen_file' = seen_file]_vars
  /\ []((pc = "idle" /\ cycles < MaxCycles) => ENABLED PollTorznab)

\* C12: the fetch of the first cycle failed, and the cycle after it has
\* matched and dispatched two entries over the seen file the process found.
C12_Witness ==
  /\ CycleComplete
  /\ skip_init
  /\ cycles = 2
  /\ faults = { "fetch" }
  /\ loaded = { idB, idC }
  /\ Len(sent) = 2
  /\ results = << "True", "True" >>

\* C13: in a poll cycle every match gets one dispatch attempt, in the order
\* of the match list, whatever the earlier attempts came to; a dispatch that
\* fails gives False (or the logged KeyError), never an exception that ends
\* the loop.
C13_EveryMatchAttempted ==
  /\ [](pc = "send" =>
          /\ sent = SubSeq(matching_items, 1, j - 1)
          /\ Len(results) = Len(sent)
          /\ \A k \in 1..Len(results) : results[k] \in { "True", "False", "KeyError" })
  /\ [](CycleComplete => sent = matching_items)
  /\ [][(pc = "send" /\ j <= Len(matching_items)) =>
          (pc' = "send" /\ j' = j + 1 /\ sent' = Append(sent, matching_items[j]))]_vars

\* C13: the first dispatch of a cycle failed, and the two matches after it
\* were dispatched, one delivered and one not.
C13_Witness ==
  /\ CycleComplete
  /\ Len(matching_items) = 3
  /\ results = << "False", "True", "False" >>

\* a step of a poll cycle that meets a fault
FaultyStep ==
  \/ PollFetchFails
  \/ mode = "poll" /\ (LoadSeenRaises \/ SaveSeenFails)
  \/ SendNotification /\ faults' # faults

\* C14: no fault of a poll cycle leaves poll_torznab: the monitor is never
\* anywhere but in its steps, a faulty step ends in the cycle or back at idle,
\* and at idle the next cycle can start.
C14_NoFaultLeavesCycle ==
  /\ [](pc \in { "start", "load", "loop", "send", "init_done", "idle" })
  /\ [][FaultyStep => pc' \in { "send", "idle" }]_vars
  /\ []((pc = "idle" /\ faults # {}) => (cycles = MaxCycles \/ ENABLED PollTorznab))

\* C14: the first cycle met a save fault and a dispatch fault, and the next
\* cycle has fetched.
C14_Witness ==
  /\ pc = "load"
  /\ skip_init
  /\ cycles = 2
  /\ faults = { "save", "dispatch" }

\* C15, as stated: whenever the seen file is missing or does not hold an
\* array of strings, the load gives the empty set and the pass goes on.
C15_LoadEmptyOnBadFile ==
  [][(pc = "load" /\ seen_file.kind # "list") => (pc' = "loop" /\ seen' = {})]_vars

\* C16: an IOError of the save does not end the cycle: _process_items returns
\* the matches it found, all of them, and each is dispatched.
C16_SaveErrorKeepsCycle ==
  /\ [][SaveSeenFails => (pc' = AfterPass /\ matching_items' = matching_items)]_vars
  /\ []((mode = "poll" /\ pc = "send" /\ save_status = "failed") =>
          matching_items = ExpectedMatches)
  /\ []((CycleComplete /\ save_status = "failed") => sent = ExpectedMatches)

\* C16: the dump of a cycle failed with the file emptied, and the two matches
\* of the cycle were dispatched.
C16_Witness ==
  /\ CycleComplete
  /\ save_status = "failed"
  /\ seen_file = Malformed
  /\ Len(sent) = 2
  /\ sent = matching_items

\* C17, as stated: after a save attempt, failed or not, a load yields the
\* complete list of before the save or the complete new list.
C17_AtomicOverwrite ==
  (save_status # "none" /\ seen_file.kind # "scalar") =>
    \/ load_seen(seen_file) = loaded
    \/ \E seen_list \in ListsOf(seen) : seen_file = FileOf(truncated(seen_list))

\* C19: when the endpoint's mapping is not loaded, every dispatch of a cycle
\* comes to the KeyError of get_notification_data and sends nothing; the
\* dispatch leaves the seen set and the seen file as they are, and the loop
\* goes on to the next match.
C19_MissingMappingDropsNotification ==
  /\ [](mapping_name \notin mappings =>
          /\ \A k \in 1..Len(results) : results[k] = "KeyError"
          /\ failed = {})
  /\ [][(SendNotification /\ mapping_name \notin mappings) =>
          /\ results' = Append(results, "KeyError")
          /\ seen' = seen /\ seen_file' = seen_file
          /\ pc' = "send" /\ j' = j + 1]_vars
  /\ []((CycleComplete /\ mapping_name \notin mappings) => Len(results) = Len(matching_items))

\* C19: a cycle with two matches and no mapping has ended: both dispatches
\* were dropped and both identities are in the seen file.
C19_Witness ==
  /\ CycleComplete
  /\ mapping_name \notin mappings
  /\ Len(matching_items) = 2
  /\ results = << "KeyError", "KeyError" >>
  /\ save_status = "ok"
  /\ \A e \in Range(matching_items) : Identity(e) \in Range(seen_file.list)

\* a process pass is the stretch from the call of _process_items (pc = "load")
\* to its return or to the exception that leaves it
InPass == pc \in { "load", "loop" }

\* a step that is a call of _save_seen, whatever its outcome
SaveStep == save_status' # save_status /\ save_status' # "none"

\* C22, the save is taken once, with every entry examined
SaveAfterLoop ==
  SaveStep => (pc = "loop" /\ i > Len(items) /\ save_status = "none" /\ ~InPass')

\* C22, no pass ends without its save
EveryPassSaves == (InPass /\ ~InPass') => SaveStep

\* C22, a notification goes out only for an identity of the set that the
\* cycle's save has been called with
SaveBeforeSend ==
  (sent' # sent /\ sent' # << >>) =>
     (save_status # "none" /\ Identity(sent'[Len(sent')]) \in seen)

\* C22: in every process pass the seen-set is saved exactly once, after all
\* entries have been examined, and in a poll cycle that save comes before the
\* first notification, so that no notification goes out for an identity
\* whose save has not been attempted.
C22_SavedOncePerPass == [][SaveAfterLoop /\ EveryPassSaves /\ SaveBeforeSend]_vars

\* ------------------------------------------------- a call of _clean_guid
\* the guids the call is tried on: every string of at most MaxTokens of these
\* pieces
MaxTokens == 6

Tokens ==
  { << "a" >>, << "?" >>, << "&" >>, << "1" >>, << "i", "d", "=" >>, << "t", "=" >> }

RECURSIVE Flatten(_)
Flatten(ts) == IF ts = << >> THEN << >> ELSE Head(ts) \o Flatten(Tail(ts))

Guids == { Flatten(ts) : ts \in UNION { [1..n -> Tokens] : n \in 0..MaxTokens } }

\* a plausible fault: the ValueError of unpacking a split without '?' is not
\* caught
unpack_error_escapes(guid) == IndexOf(guid, "?") = 0

\* _clean_guid: the try block is its whole body and `except Exception`
\* returns the guid, so no exception leaves it
clean_guid_raises(guid) == FALSE

\* the monitor as constructed, left aside while one of its parts is followed
MonitorAside ==
  /\ MonitorInit
  /\ skip_init
  /\ mappings = { mapping_name }
  /\ seen_file = Missing

InitClean ==
  /\ MonitorAside
  /\ arg_guid \in Guids
  /\ clean_pc = "call"
  /\ clean_result = << >>
  /\ ExtractionOff
  /\ SchedulingOff

\* self._clean_guid(guid)
CleanGuid ==
  /\ clean_pc = "call"
  /\ clean_pc' = IF clean_guid_raises(arg_guid) THEN "raised" ELSE "returned"
  /\ clean_result' = IF clean_guid_raises(arg_guid) THEN << >> ELSE clean_guid(arg_guid)
  /\ UNCHANGED << arg_guid, monitor, extraction, scheduling >>

NextClean == CleanGuid

SpecClean == InitClean /\ [][NextClean]_vars

\* the places of '?' in g
QueryMarks(g) == { k \in 1..Len(g) : g[k] = "?" }

\* the text before the first '?'
BaseOf(g) ==
  LET k == CHOOSE m \in QueryMarks(g) : \A n \in QueryMarks(g) : m <= n
  IN SubSeq(g, 1, k - 1)

\* the text after the first '?'
QueryOf(g) ==
  LET k == CHOOSE m \in QueryMarks(g) : \A n \in QueryMarks(g) : m <= n
  IN SubSeq(g, k + 1, Len(g))

\* q[a..b] is one of the '&'-separated parameters of q
IsParam(q, a, b) ==
  /\ a = 1 \/ q[a - 1] = "&"
  /\ b = Len(q) \/ q[b + 1] = "&"
  /\ \A k \in a..b : q[k] # "&"

\* the places where a parameter of q starting with 'id=' begins and ends
IdParams(q) ==
  { ab \in (1..Len(q)) \X (1..Len(q)) :
      /\ ab[1] + 2 <= ab[2]
      /\ IsParam(q, ab[1], ab[2])
      /\ q[ab[1]] = "i" /\ q[ab[1] + 1] = "d" /\ q[ab[1] + 2] = "=" }

\* C11: _clean_guid returns for every string: the guid itself when it has no
\* '?'; base, '?' and the first '&'-separated parameter that starts with 'id='
\* when there is one; the base alone when there is a '?' and no such parameter.
C11_CleanGuid ==
  /\ clean_pc # "raised"
  /\ clean_pc = "returned" =>
       IF QueryMarks(arg_guid) = {} THEN clean_result = arg_guid
       ELSE LET q == QueryOf(arg_guid)
            IN IF IdParams(q) = {} THEN clean_result = BaseOf(arg_guid)
               ELSE LET first == CHOOSE ab \in IdParams(q) : \A cd \in IdParams(q) : ab[1] <= cd[1]
                    IN clean_result = BaseOf(arg_guid) \o << "?" >> \o SubSeq(q, first[1], first[2])

\* C11: the call has returned for a guid whose second parameter is the id.
C11_Witness ==
  /\ clean_pc = "returned"
  /\ arg_guid = << "a", "?", "t", "=", "&", "i", "d", "=", "1" >>
  /\ clean_result = << "a", "?", "i", "d", "=", "1" >>

\* ------------------------------------- a call of get_notification_data
\* the most fields a mapping of the model has
MaxFields == 3

\* the values of a payload: None, a string, a list of strings
Null == [kind |-> "null", v |-> << >>]
Text(t) == [kind |-> "text", v |-> << t >>]
ListOf(l) == [kind |-> "list", v |-> l]

\* what an item can hold at a tag: no element, an element without text, an
\* element with the text "x"
Tags == { "title", "link" }
TagStates == { "absent", "empty", "x" }

\* the attr children of an item, each << name, value >>, in document order
AttrLists ==
  { << >>,
    << << "size", "9" >> >>,
    << << "category", "5000" >> >>,
    << << "category", "5000" >>, << "category", "5040" >> >>,
    << << "category", "5040" >>, << "category", "5000" >> >>,
    << << "size", "9" >>, << "category", "5040" >> >>,
    << << "category", "5000" >>, << "size", "9" >>, << "category", "5040" >> >> }

Items == { [tags |-> t, attrs |-> a] : t \in [Tags -> TagStates], a \in AttrLists }

\* NotificationMapping, with "none" for a key the mapping file leaves out;
\* type is 'xml_tag', 'torznab_attr' or 'static'
NotificationMapping(f, t, p, n, v, s) ==
  [field |-> f, type |-> t, path |-> p, name |-> n, value |-> v, select |-> s]

\* the field mappings a mapping of the model is made of: "[" is a path and
\* "a'b" a name ElementPath cannot read
FieldMappings ==
  { NotificationMapping("event", "static", "none", "none", "New", "none"),
    NotificationMapping("title", "xml_tag", "title", "none", "none", "none"),
    NotificationMapping("link", "xml_tag", "link", "none", "none", "none"),
    NotificationMapping("bad", "xml_tag", "[", "none", "none", "none"),
    NotificationMapping("cat", "torznab_attr", "none", "category", "none", "first"),
    NotificationMapping("cats", "torznab_attr", "none", "category", "none", "all"),
    NotificationMapping("sizes", "torznab_attr", "none", "size", "none", "none"),
    NotificationMapping("quoted", "torznab_attr", "none", "a'b", "none", "first") }

\* a mapping: at most MaxFields field mappings under different field names
Mappings ==
  { m \in UNION { [1..n -> FieldMappings] : n \in 0..MaxFields } :
      \A a, b \in 1..Len(m) : a # b => m[a].field # m[b].field }

\* item.find(path) raises for a path ElementPath cannot read
find_raises(path) == path \notin Tags

\* _extract_xml_tag: the text of the element found, None when there is no
\* element or no text, and None from `except Exception` when find raises
extract_xml_tag(item, path) ==
  IF find_raises(path) THEN Null
  ELSE IF item.tags[path] \in { "absent", "empty" } THEN Null
  ELSE Text(item.tags[path])

\* item.findall(".//{*}attr[@name='...']") raises for a name that breaks the
\* predicate
findall_raises(name) == name = "a'b"

\* _extract_torznab_attr: the values of the attr children of that name, in
\* document order; none when findall raises
attr_values(item, name) ==
  IF findall_raises(name) THEN << >>
  ELSE LET found == SelectSeq(item.attrs, LAMBDA a : a[1] = name)
       IN [k \in 1..Len(found) |-> found[k][2]]

\* a plausible fault: the selection is not looked at
torznab_attr_all(item, name, select) ==
  IF attr_values(item, name) = << >> THEN Null ELSE ListOf(attr_values(item, name))

\* _extract_torznab_attr: None, the first value when select is 'first', or
\* the list; get_notification_data passes field_mapping.select whatever it
\* is, None for a mapping without the key, and None is not 'first'
extract_torznab_attr(item, name, select) ==
  LET values == attr_values(item, name)
  IN IF values = << >> THEN Null
     ELSE IF select = "first" THEN Text(values[1]) ELSE ListOf(values)

\* get_notification_data: what the branch of the field's type assigns
field_value(item, field_mapping) ==
  IF field_mapping.type = "static" THEN Text(field_mapping.value)
  ELSE IF field_mapping.type = "xml_tag" THEN extract_xml_tag(item, field_mapping.path)
  ELSE extract_torznab_attr(item, field_mapping.name, field_mapping.select)

\* a plausible fault: a field that comes to None ends the loop
stop_at_null(k, n, value) == IF value = Null THEN n + 1 ELSE k + 1

\* get_notification_data: `for field, field_mapping in mapping.items()` goes
\* on to the next of the n fields
next_field(k, n, value) == k + 1

InitExtract ==
  /\ MonitorInit
  /\ skip_init
  /\ seen_file = Missing
  /\ CleaningOff
  /\ nd_item \in Items
  /\ mapping_fields \in Mappings
  /\ nd_pc = "call"
  /\ nd_k = 1
  /\ nd_data = << >>
  /\ SchedulingOff

\* get_notification_data(item, mapping_name): KeyError when the mapping is
\* not loaded, else data = {}
GetNotificationData ==
  /\ nd_pc = "call"
  /\ nd_pc' = IF mapping_found(mappings) THEN "fields" ELSE "raised"
  /\ UNCHANGED << nd_item, mapping_fields, nd_k, nd_data, monitor, cleaning, scheduling >>

\* one iteration of the loop over the fields
ExtractField ==
  /\ nd_pc = "fields"
  /\ nd_k <= Len(mapping_fields)
  /\ LET field_mapping == mapping_fields[nd_k]
         value == field_value(nd_item, field_mapping)
     IN /\ nd_data' = Append(nd_data, [field |-> field_mapping.field, value |-> value])
        /\ nd_k' = next_field(nd_k, Len(mapping_fields), value)
  /\ UNCHANGED << nd_item, mapping_fields, nd_pc, monitor, cleaning, scheduling >>

\* return data
ReturnData ==
  /\ nd_pc = "fields"
  /\ nd_k > Len(mapping_fields)
  /\ nd_pc' = "returned"
  /\ UNCHANGED << nd_item, mapping_fields, nd_k, nd_data, monitor, cleaning, scheduling >>

NextExtract ==
  \/ GetNotificationData
  \/ ExtractField
  \/ ReturnData

SpecExtract == InitExtract /\ [][NextExtract]_vars

\* the places of the attr children named n, and the k-th of them
AttrPlaces(item, n) == { k \in 1..Len(item.attrs) : item.attrs[k][1] = n }
NthPlace(S, k) == CHOOSE m \in S : Cardinality({ n \in S : n < m }) = k - 1

\* the field cannot be extracted: its path or its name cannot be read
Unreadable(fm) ==
  \/ fm.type = "xml_tag" /\ fm.path \notin Tags
  \/ fm.type = "torznab_attr" /\ fm.name = "a'b"

\* what a configured field is to give for an item
Expected(item, fm) ==
  IF Unreadable(fm) THEN Null
  ELSE IF fm.type = "static" THEN Text(fm.value)
  ELSE IF fm.type = "xml_tag"
       THEN IF item.tags[fm.path] = "x" THEN Text("x") ELSE Null
  ELSE LET places == AttrPlaces(item, fm.name)
       IN IF places = {} THEN Null
          ELSE IF fm.select = "first" THEN Text(item.attrs[NthPlace(places, 1)][2])
          ELSE ListOf([k \in 1..Cardinality(places) |-> item.attrs[NthPlace(places, k)][2]])

\* C20: for a loaded mapping get_notification_data does not raise, and the
\* data it returns has one entry per configured field, in order: None for a
\* field that cannot be extracted or finds nothing, and for every other field
\* its value, whatever the fields around it came to.
C20_FieldIsolation ==
  /\ mapping_name \in mappings => nd_pc # "raised"
  /\ nd_pc = "returned" =>
       /\ Len(nd_data) = Len(mapping_fields)
       /\ \A k \in 1..Len(mapping_fields) :
            /\ nd_data[k].field = mapping_fields[k].field
            /\ nd_data[k].value = Expected(nd_item, mapping_fields[k])
            /\ Unreadable(mapping_fields[k]) => nd_data[k].value = Null

\* C20: a mapping of a field with an unreadable path, the title and a field
\* with an unreadable name was extracted from an item with a title: the title
\* has its text and the two others are None.
C20_Witness ==
  /\ nd_pc = "returned"
  /\ Len(mapping_fields) = 3
  /\ mapping_fields[1].field = "bad"
  /\ mapping_fields[2].field = "title"
  /\ mapping_fields[3].field = "quoted"
  /\ nd_data = << [field |-> "bad", value |-> Null],
                  [field |-> "title", value |-> Text("x")],
                  [field |-> "quoted", value |-> Null] >>

\* ------------------------------------ the scheduler and the poll job
\* start registers poll_torznab as an interval job and starts a
\* BackgroundScheduler: each time the trigger fires, the executor runs the job
\* on a thread of its pool unless max_instances runs of it are under way, in
\* which case the run is skipped.  add_job is called without max_instances,
\* which leaves it at 1.
MaxFires == 4

\* the threads of the executor's pool the model follows
Threads == 2

Free == [phase |-> "free", base |-> 0]

\* the runs of the job that are under way
Running == { t \in DOMAIN instances : instances[t].phase # "free" }

\* add_job(self.poll_torznab, "interval", ...) names no max_instances
max_instances == 1

\* a plausible fault: the job is registered so that runs may overlap
always_starts(running) == TRUE

\* the executor's test before it submits a run: fewer than max_instances
\* runs of the job are under way
may_start(running) == running < max_instances

InitSched ==
  /\ MonitorAside
  /\ CleaningOff
  /\ ExtractionOff
  /\ instances = [t \in 1..Threads |-> Free]
  /\ fired = 0
  /\ missed = 0
  /\ writes = 0

\* the trigger fires and the executor starts a run of poll_torznab
FireStarts ==
  /\ fired < MaxFires
  /\ may_start(Cardinality(Running))
  /\ fired' = fired + 1
  /\ \E t \in DOMAIN instances :
       /\ instances[t].phase = "free"
       /\ instances' = [instances EXCEPT ![t] = [phase |-> "fetch", base |-> 0]]
  /\ UNCHANGED << missed, writes, monitor, cleaning, extraction >>

\* the trigger fires while the job is still running: the run is skipped
FireSkips ==
  /\ fired < MaxFires
  /\ ~may_start(Cardinality(Running))
  /\ fired' = fired + 1
  /\ missed' = missed + 1
  /\ UNCHANGED << instances, writes, monitor, cleaning, extraction >>

\* poll_torznab on thread t: the fetch fails and the job returns
JobFetchFails(t) ==
  /\ instances[t].phase = "fetch"
  /\ instances' = [instances EXCEPT ![t] = Free]
  /\ UNCHANGED << fired, missed, writes, monitor, cleaning, extraction >>

\* poll_torznab on thread t: the next step of fetch, _load_seen, the loop of
\* _process_items, _save_seen, the dispatches
JobStep(t) ==
  /\ instances[t].phase # "free"
  /\ LET phase == instances[t].phase
     IN /\ instances' =
             [instances EXCEPT ![t] =
                IF phase = "fetch" THEN [phase |-> "load", base |-> 0]
                ELSE IF phase = "load" THEN [phase |-> "filter", base |-> writes]
                ELSE IF phase = "filter" THEN [phase |-> "save", base |-> @.base]
                ELSE IF phase = "save" THEN [phase |-> "send", base |-> 0]
                ELSE Free]
        /\ writes' = IF phase = "save" THEN writes + 1 ELSE writes
  /\ UNCHANGED << fired, missed, monitor, cleaning, extraction >>

NextSched ==
  \/ FireStarts
  \/ FireSkips
  \/ \E t \in DOMAIN instances : JobFetchFails(t)
  \/ \E t \in DOMAIN instances : JobStep(t)

SpecSched == InitSched /\ [][NextSched]_vars

SelectsFirst(fm) == fm.type = "torznab_attr" /\ fm.select = "first"
SelectsAll(fm) == fm.type = "torznab_attr" /\ fm.select = "all"

\* the values of the attr children of the item named n, in document order
ValuesInOrder(item, n) ==
  LET places == AttrPlaces(item, n)
  IN [k \in 1..Cardinality(places) |-> item.attrs[NthPlace(places, k)][2]]

\* C21: the value of a torznab_attr field comes from the values of the attr
\* children of the configured name, in document order: None when there is
\* none, else the first of them for select 'first' and the whole list for
\* select 'all'; a field that selects the first never gives a list.
C21_TorznabAttrSelect ==
  nd_pc = "returned" =>
    \A k \in 1..Len(mapping_fields) :
      LET fm == mapping_fields[k]
          values == IF fm.name = "a'b" THEN << >> ELSE ValuesInOrder(nd_item, fm.name)
      IN /\ (SelectsFirst(fm) \/ SelectsAll(fm)) =>
              /\ k <= Len(nd_data)
              /\ values = << >> => nd_data[k].value = Null
              /\ (values # << >> /\ SelectsFirst(fm)) => nd_data[k].value = Text(values[1])
              /\ (values # << >> /\ SelectsAll(fm)) => nd_data[k].value = ListOf(values)
         /\ SelectsFirst(fm) => (k <= Len(nd_data) /\ nd_data[k].value.kind # "list")

\* C21: from an item whose category attrs 5000 and 5040 have a size attr
\* between them, a mapping has extracted the first category, all categories,
\* and nothing for a name that no attr has.
C21_Witness ==
  /\ nd_pc = "returned"
  /\ nd_item.attrs = << << "category", "5000" >>, << "size", "9" >>, << "category", "5040" >> >>
  /\ Len(mapping_fields) = 3
  /\ nd_data = << [field |-> "cat", value |-> Text("5000")],
                  [field |-> "cats", value |-> ListOf(<< "5000", "5040" >>)],
                  [field |-> "quoted", value |-> Null] >>

\* the poll job is registered and the scheduler started
SchedulerStarted == pc = "idle" \/ mode = "poll"

\* a regular poll cycle has started
PollStarted == mode = "poll"

\* C23: unless it is skipped, the initialization has run to its end, with
\* success or a logged failure, before the poll job is added and the
\* scheduler started: no poll cycle starts before or during it, and it runs
\* at most once (not at all when skipped).
C23_InitBeforeScheduler ==
  /\ init_calls <= 1
  /\ init_returns <= init_calls
  /\ skip_init => init_calls = 0
  /\ (~skip_init /\ (SchedulerStarted \/ PollStarted)) => (init_calls = 1 /\ init_returns = 1)
  /\ init_returns < init_calls => (mode = "init" /\ pc \in { "load", "loop" })

\* C23: a poll cycle dispatches a notification in a process that was started
\* with initialization, which has run once and returned.
C23_Witness ==
  /\ ~skip_init
  /\ init_calls = 1
  /\ init_returns = 1
  /\ mode = "poll"
  /\ pc = "send"
  /\ sent # << >>

\* the normalized identities of a list of entries
IdsOf(l) == { Identity(l[k]) : k \in 1..Len(l) }

\* C24: throughout a process pass, and so when the set is handed to
\* _save_seen, the in-memory seen set is the loaded set united with the
\* normalized identities of the matches; the matches have pairwise distinct
\* identities, none of which was in the loaded set.
C24_SeenIsLoadedPlusMatches ==
  /\ seen = loaded \cup IdsOf(matching_items)
  /\ seen \ loaded = IdsOf(matching_items)
  /\ DistinctIds(matching_items)
  /\ IdsOf(matching_items) \cap loaded = {}
  /\ Cardinality(seen) = Cardinality(loaded) + Len(matching_items)

\* C24: a pass that loaded a non-empty set has examined three entries, one
\* of them with a loaded identity, has two matches, and is about to save.
C24_Witness ==
  /\ pc = "loop"
  /\ i > Len(items)
  /\ loaded # {}
  /\ Len(matching_items) = 2
  /\ Len(items) = 3
  /\ \E k \in 1..Len(items) : items[k].has_guid /\ Identity(items[k]) \in loaded
  /\ seen = loaded \cup IdsOf(matching_items)

====
